---- MODULE Spec2Model ----
(***************************************************************************)
(* A model of sact.epoch's ManageableClock (src/src/sact/epoch/clock.py).  *)
(*                                                                         *)
(* Timestamps, delta and durations are floats of seconds in the source.    *)
(* Here they are integers counting ticks of 1/TicksPerSec second, so that  *)
(* sub-second values exist and int() and timedelta's normalisation have    *)
(* something to drop.  Every call samples the system timer at one instant: *)
(* system time advances between calls (Tick), not inside one.              *)
(***************************************************************************)
EXTENDS Integers, Sequences, FiniteSets, TLC

\* ------------------------------------------------------------------ bounds
TicksPerSec == 2      \* resolution of the model: ticks in one second
StartTime   == 4      \* system time (ticks) when the clock is constructed
MaxElapsed  == 2      \* ticks of system time that pass after construction
MaxCalls    == 4      \* start/stop/set/wait calls in one behaviour
MaxReads    == 2      \* reads of ts remembered since the last such call
MaxThreadOps == 2     \* calls each thread makes on the shared clock
MaxManage   == 2      \* start/stop/set calls on the clock serving Time.now()
MaxRegs     == 2      \* registerUtility calls in one behaviour

\* ------------------------------------------------------- program constants
SecsPerDay == 86400

VARIABLES
    now,      \* time.time(): the system timer, in ticks
    delta,    \* self.delta
    _ft,      \* self._ft: None or Some(frozen timestamp)
    op,       \* the last start/stop/set_ts/wait call ("init": none yet)
    arg,      \* that call's arguments
    pre,      \* delta, _ft and the system time when that call was made
    obs,      \* the reads of ts made since that call
    ncalls,   \* number of start/stop/set_ts/wait calls made
    raised,   \* the exception the last call raised, None when it returned
    untouched,\* no stop/set_ts/wait call has been made yet
    tpc,      \* threads: the statement each thread is at ("idle": in no call)
    tloc,     \* threads: each thread's locals (caller of get_ts, values read)
    tdone,    \* threads: number of calls each thread has begun
    fault,    \* threads: the None values that were returned or computed with
    overlap,  \* threads: two calls have been in progress at once
    clockRegs,\* registry: the clocks registered for IClock, oldest first
    localRegs,\* registry: the timezones registered for ITimeZone as 'local'
    os,       \* the system's timezone: time.timezone, altzone, daylight
    tcall     \* the last call on Time or TzLocal, with what it returned

\* the caller's view of a clock used by one caller at a time
cvars == <<op, arg, pre, obs, ncalls, raised, untouched>>

\* the threads' positions and locals
tvars == <<tpc, tloc, tdone, fault, overlap>>

\* the registry, the system's timezone and the last call on Time
rvars == <<clockRegs, localRegs, os, tcall>>

vars == <<now, delta, _ft, cvars, tvars, rvars>>

\* ------------------------------------------------------------ Python values
None    == <<>>
Some(v) == <<v>>
Val(x)  == x[1]

\* int(x) of a number of seconds: truncation toward zero (result in ticks)
int(x) ==
    IF x >= 0 THEN (x \div TicksPerSec) * TicksPerSec
              ELSE -(((-x) \div TicksPerSec) * TicksPerSec)

\* keyword arguments: a set of <<name, value>> pairs, absent names default to 0
Kw(kwargs, name) ==
    IF \E p \in kwargs : p[1] = name
    THEN (CHOOSE p \in kwargs : p[1] = name)[2]
    ELSE 0

\* the timedelta argument of wait(): absent (its default, None), a number of
\* seconds, or a datetime.timedelta
NoArg  == [kind |-> "None", num |-> 0, days |-> 0, seconds |-> 0, subsec |-> 0]
Num(x) == [kind |-> "num", num |-> x, days |-> 0, seconds |-> 0, subsec |-> 0]

\* datetime.timedelta(days=, hours=, minutes=, seconds=): the normalised
\* duration, 0 <= seconds < 86400 and 0 <= subsec < 1 second; days and
\* seconds are whole numbers, subsec is in ticks
timedelta(kwargs) ==
    LET total == ((Kw(kwargs, "days") * 24 + Kw(kwargs, "hours")) * 60
                   + Kw(kwargs, "minutes")) * 60 * TicksPerSec
                 + Kw(kwargs, "seconds")
        day   == SecsPerDay * TicksPerSec
    IN  [kind    |-> "timedelta",
         num     |-> 0,
         days    |-> total \div day,
         seconds |-> (total % day) \div TicksPerSec,
         subsec  |-> total % TicksPerSec]

\* ---------------------------------------------------------- ManageableClock
__init___Offset ==
    /\ delta = 1
    /\ _ft = None

__init__ ==
    /\ delta = 0
    /\ _ft = None

is_running(ft) == ft = None

get_ts_IgnoreDelta(ft, d, t) ==
    IF ~is_running(ft) THEN Val(ft) ELSE t

get_ts_Unfrozen(ft, d, t) == t + d

get_ts(ft, d, t) ==
    IF ~is_running(ft) THEN Val(ft) ELSE t + d

\* self.ts, read at the current system time
ts == get_ts(_ft, delta, now)

set_ts_KeepFrozen(value) ==
    /\ delta' = value - now
    /\ _ft' = _ft

set_ts_AlwaysFreeze(value) ==
    /\ delta' = value - now
    /\ _ft' = Some(value)

set_ts_NoRebase(value) ==
    /\ delta' = value
    /\ _ft' = IF _ft # None THEN Some(value) ELSE _ft

set_ts(value) ==
    /\ delta' = value - now
    /\ _ft' = IF _ft # None THEN Some(value) ELSE _ft

start_NoEarlyReturn ==
    /\ delta' = (ts - delta) - (IF _ft = None THEN 0 ELSE Val(_ft))
    /\ _ft' = None

start ==
    IF is_running(_ft)
    THEN UNCHANGED <<delta, _ft>>
    ELSE /\ delta' = (ts - delta) - Val(_ft)
         /\ _ft' = None

stop ==
    /\ _ft' = Some(ts - delta)
    /\ UNCHANGED delta

wait_secs_NoInt(timedelta_, kwargs) ==
    LET td == IF timedelta_ = NoArg THEN timedelta(kwargs) ELSE timedelta_
    IN  IF td.kind = "timedelta"
        THEN (td.days * SecsPerDay + td.seconds) * TicksPerSec
        ELSE td.num

wait_secs_SecondsOnly(timedelta_, kwargs) ==
    LET td == IF timedelta_ = NoArg THEN timedelta(kwargs) ELSE timedelta_
    IN  IF td.kind = "timedelta"
        THEN td.seconds * TicksPerSec
        ELSE int(td.num)

\* the secs that wait() adds to ts, in ticks
wait_secs(timedelta_, kwargs) ==
    LET td == IF timedelta_ = NoArg THEN timedelta(kwargs) ELSE timedelta_
    IN  IF td.kind = "timedelta"
        THEN (td.days * SecsPerDay + td.seconds) * TicksPerSec
        ELSE int(td.num)

wait(timedelta_, kwargs) == set_ts(ts + wait_secs(timedelta_, kwargs))

\* ------------------------------------------------------------------ inputs
\* values assigned to ts: the epoch, a fractional second, a time ahead of the
\* system time
Values == {0, 3, StartTime + MaxElapsed + 3}

\* wait(timedelta, **kwargs): numbers of seconds (whole and fractional, both
\* signs), timedelta objects, keywords alone, and both at once
WaitArgs ==
    {<<Num(x), {}>> : x \in {-3, -2, 2, 3}}
    \cup {<<timedelta({<<"days", 1>>, <<"seconds", 3>>}), {}>>,
          <<timedelta({<<"seconds", -1>>}), {}>>}
    \cup {<<NoArg, {}>>,
          <<NoArg, {<<"minutes", 5>>}>>,
          <<NoArg, {<<"days", 1>>, <<"seconds", TicksPerSec>>}>>,
          <<NoArg, {<<"seconds", -3>>}>>,
          <<Num(2), {<<"minutes", 5>>}>>}

\* ----------------------------------------------------------------- threads
\* Two threads call start(), stop(), read ts and assign ts on one clock.  Each
\* read or write of self.delta or self._ft is one step; the other thread may
\* run between any two of them.
Threads == {"t1", "t2"}

Idle == [caller |-> "", tmp |-> None, acc |-> 0, v |-> 0]

NoThreads ==
    /\ tpc = [t \in Threads |-> "idle"]
    /\ tloc = [t \in Threads |-> Idle]
    /\ tdone = [t \in Threads |-> 0]
    /\ fault = {}
    /\ overlap = FALSE

\* thread t moves to statement l with locals loc
Goto(t, l, loc) ==
    /\ tpc' = [tpc EXCEPT ![t] = l]
    /\ tloc' = [tloc EXCEPT ![t] = loc]

\* thread t's call raises TypeError for the None it met
Fault(t, f) ==
    /\ fault' = fault \cup {f}
    /\ Goto(t, "idle", [tloc[t] EXCEPT !.tmp = None])

\* thread t begins a call: a read of ts, stop(), start() or ts = v
Begin(t) ==
    /\ tpc[t] = "idle"
    /\ tdone[t] < MaxThreadOps
    /\ tdone' = [tdone EXCEPT ![t] = @ + 1]
    /\ overlap' = (overlap \/ \E u \in Threads \ {t} : tpc[u] # "idle")
    /\ \/ \E c \in {"read", "stop"} : Goto(t, "get_check", [Idle EXCEPT !.caller = c])
       \/ Goto(t, "start_check", [Idle EXCEPT !.caller = "start"])
       \/ \E v \in Values : Goto(t, "set_delta", [Idle EXCEPT !.caller = "set", !.v = v])
    /\ UNCHANGED <<now, delta, _ft, cvars, rvars, fault>>

get_ts_branch_Inverted(ft) ==
    IF ~is_running(ft) THEN "get_time" ELSE "get_ft"

\* get_ts: if not self.is_running
get_ts_branch(ft) ==
    IF ~is_running(ft) THEN "get_ft" ELSE "get_time"

GetCheck(t) ==
    /\ tpc[t] = "get_check"
    /\ Goto(t, get_ts_branch(_ft), tloc[t])
    /\ UNCHANGED <<now, delta, _ft, cvars, rvars, tdone, fault, overlap>>

\* get_ts returns r to the statement that read self.ts
Return(t, r) ==
    IF tloc[t].caller = "read"
    THEN /\ fault' = (IF r = None THEN fault \cup {"read_none"} ELSE fault)
         /\ Goto(t, "idle", [tloc[t] EXCEPT !.tmp = r])
    ELSE /\ Goto(t, IF tloc[t].caller = "stop" THEN "stop_sub" ELSE "start_sub1",
                 [tloc[t] EXCEPT !.tmp = r])
         /\ UNCHANGED fault

\* get_ts: return self._ft
GetFt(t) ==
    /\ tpc[t] = "get_ft"
    /\ Return(t, _ft)
    /\ UNCHANGED <<now, delta, _ft, cvars, rvars, tdone, overlap>>

\* get_ts: return time.time() + self.delta
GetTime(t) ==
    /\ tpc[t] = "get_time"
    /\ Return(t, Some(now + delta))
    /\ UNCHANGED <<now, delta, _ft, cvars, rvars, tdone, overlap>>

\* stop: self.ts - self.delta
StopSub(t) ==
    /\ tpc[t] = "stop_sub"
    /\ IF tloc[t].tmp = None
       THEN Fault(t, "stop_none")
       ELSE /\ Goto(t, "stop_write", [tloc[t] EXCEPT !.acc = Val(tloc[t].tmp) - delta])
            /\ UNCHANGED fault
    /\ UNCHANGED <<now, delta, _ft, cvars, rvars, tdone, overlap>>

\* stop: self._ft = ...
StopWrite(t) ==
    /\ tpc[t] = "stop_write"
    /\ _ft' = Some(tloc[t].acc)
    /\ Goto(t, "idle", tloc[t])
    /\ UNCHANGED <<now, delta, cvars, rvars, tdone, fault, overlap>>

\* start: if self.is_running: return
StartCheck(t) ==
    /\ tpc[t] = "start_check"
    /\ Goto(t, IF is_running(_ft) THEN "idle" ELSE "get_check", tloc[t])
    /\ UNCHANGED <<now, delta, _ft, cvars, rvars, tdone, fault, overlap>>

\* start: self.ts - self.delta
StartSub1(t) ==
    /\ tpc[t] = "start_sub1"
    /\ IF tloc[t].tmp = None
       THEN Fault(t, "start_none")
       ELSE /\ Goto(t, "start_sub2", [tloc[t] EXCEPT !.acc = Val(tloc[t].tmp) - delta])
            /\ UNCHANGED fault
    /\ UNCHANGED <<now, delta, _ft, cvars, rvars, tdone, overlap>>

\* start: ... - self._ft
StartSub2(t) ==
    /\ tpc[t] = "start_sub2"
    /\ IF _ft = None
       THEN Fault(t, "start_none")
       ELSE /\ Goto(t, "start_delta", [tloc[t] EXCEPT !.acc = @ - Val(_ft)])
            /\ UNCHANGED fault
    /\ UNCHANGED <<now, delta, _ft, cvars, rvars, tdone, overlap>>

\* start: self.delta = ...
StartDelta(t) ==
    /\ tpc[t] = "start_delta"
    /\ delta' = tloc[t].acc
    /\ Goto(t, "start_ft", tloc[t])
    /\ UNCHANGED <<now, _ft, cvars, rvars, tdone, fault, overlap>>

\* start: self._ft = None
StartFt(t) ==
    /\ tpc[t] = "start_ft"
    /\ _ft' = None
    /\ Goto(t, "idle", tloc[t])
    /\ UNCHANGED <<now, delta, cvars, rvars, tdone, fault, overlap>>

\* set_ts: self.delta = value - time.time()
SetDelta(t) ==
    /\ tpc[t] = "set_delta"
    /\ delta' = tloc[t].v - now
    /\ Goto(t, "set_check", tloc[t])
    /\ UNCHANGED <<now, _ft, cvars, rvars, tdone, fault, overlap>>

\* set_ts: if self._ft is not None
SetCheck(t) ==
    /\ tpc[t] = "set_check"
    /\ Goto(t, IF _ft # None THEN "set_ft" ELSE "idle", tloc[t])
    /\ UNCHANGED <<now, delta, _ft, cvars, rvars, tdone, fault, overlap>>

\* set_ts: self._ft = value
SetFt(t) ==
    /\ tpc[t] = "set_ft"
    /\ _ft' = Some(tloc[t].v)
    /\ Goto(t, "idle", tloc[t])
    /\ UNCHANGED <<now, delta, cvars, rvars, tdone, fault, overlap>>

\* --------------------------------------------------------------- timezones
\* A timezone is named by its class; "None" is no tzinfo at all.  A Time is
\* its wall-clock fields, counted in ticks since 1970-01-01 00:00:00, with
\* its tzinfo.

\* the system's timezone as the time module gives it (offsets in ticks east of
\* UTC), with the wall time from which the system reports daylight saving
OSZones ==
    {[stdoffset |-> 0, altoffset |-> 0, daylight |-> FALSE, dstfrom |-> 0],
     [stdoffset |-> 3600 * TicksPerSec, altoffset |-> 7200 * TicksPerSec,
      daylight |-> TRUE, dstfrom |-> 2]}

\* TzSystem.stdoffset, dstoffset, dstdiff
stdoffset == os.stdoffset
dstoffset == IF os.daylight THEN os.altoffset ELSE stdoffset
dstdiff   == dstoffset - stdoffset

\* TzSystem._isdst: what time.localtime(time.mktime(...)).tm_isdst says
_isdst(wall) == os.daylight /\ wall >= os.dstfrom

utcoffset(tz, wall) ==
    IF tz = "UTC" THEN 0
    ELSE IF tz = "TzTest" THEN 5 * 60 * TicksPerSec
    ELSE IF _isdst(wall) THEN dstoffset ELSE stdoffset

dst(tz, wall) ==
    IF tz \in {"UTC", "TzTest"} THEN 0
    ELSE IF _isdst(wall) THEN dstdiff ELSE 0

\* queryUtility(interface, default=...): the utility registered last for the
\* role, the default when there is none
queryUtility(regs, default) ==
    IF regs = <<>> THEN default ELSE regs[Len(regs)]

TzLocal_Cached ==
    IF localRegs = <<>> THEN "TzSystem" ELSE localRegs[1]

TzLocal == queryUtility(localRegs, "TzSystem")

\* -------------------------------------------------------------------- Time
MkTime(w, tz) == [kind |-> "Time", wall |-> w, tzinfo |-> tz, err |-> ""]
Raise(e)      == [kind |-> "error", wall |-> 0, tzinfo |-> "None", err |-> e]

\* the absolute instant of an aware Time: its UTC timestamp, in ticks
Instant(t) == t.wall - utcoffset(t.tzinfo, t.wall)

__new___NoDefault(wall, pos, kw) ==
    IF pos # "absent" /\ kw # "absent" THEN Raise("TypeError")
    ELSE IF pos # "absent" THEN MkTime(wall, pos)
    ELSE IF kw # "absent" THEN MkTime(wall, kw)
    ELSE MkTime(wall, "None")

\* Time(year, ..., microsecond[, tzinfo][, tzinfo=...]): pos is the eighth
\* positional argument, kw the tzinfo keyword, "absent" when not given
__new__(wall, pos, kw) ==
    IF kw = "absent" /\ pos = "absent" THEN MkTime(wall, "UTC")
    ELSE IF pos # "absent" /\ kw # "absent" THEN Raise("TypeError")
    ELSE MkTime(wall, IF pos # "absent" THEN pos ELSE kw)

from_datetime_NoCheck(dt) == __new__(dt.wall, dt.tzinfo, "absent")

from_datetime(dt) ==
    IF dt.tzinfo = "None" THEN Raise("ValueError")
    ELSE __new__(dt.wall, dt.tzinfo, "absent")

\* datetime.replace(tzinfo=tz)
replace(t, tz) == __new__(t.wall, tz, "absent")

utcfromtimestamp(stamp) == replace(__new__(stamp, "absent", "absent"), "UTC")

\* tzinfo.fromutc(dt), dt carrying the UTC fields and tz
fromutc(tz, wall) ==
    LET w1 == wall + (utcoffset(tz, wall) - dst(tz, wall))
    IN  w1 + dst(tz, w1)

astimezone_Replace(t, tz) ==
    IF t.tzinfo = "None" THEN Raise("ValueError")
    ELSE from_datetime(MkTime(t.wall, tz))

\* Time.astimezone(tz): datetime.astimezone, then from_datetime
astimezone(t, tz) ==
    IF t.tzinfo = "None" THEN Raise("ValueError")
    ELSE from_datetime(MkTime(fromutc(tz, t.wall - utcoffset(t.tzinfo, t.wall)), tz))

\* utility.time of the clock c: Clock.time over Clock.ts or ManageableClock.ts
time(c) == utcfromtimestamp(IF c = "ManageableClock" THEN ts ELSE now)

Time_now_DefaultClock == replace(time("Clock"), "UTC")

Time_now == replace(time(queryUtility(clockRegs, "Clock")), "UTC")

Time_now_lt == astimezone(Time_now, TzLocal)

\* inputs of the Time calls
Walls == {0, 3}
Zones == {"UTC", "TzTest", "TzSystem"}
Times == {MkTime(w, z) : w \in Walls, z \in Zones \cup {"None"}}

NoCall ==
    [name |-> "none", t |-> Raise(""), tz |-> "", pos |-> "", kw |-> "",
     ret |-> Raise(""), orig |-> Raise("")]

NoTime ==
    /\ clockRegs = <<>>
    /\ localRegs = <<>>
    /\ os \in {[stdoffset |-> 0, altoffset |-> 0, daylight |-> FALSE, dstfrom |-> 0]}
    /\ tcall = NoCall

\* ------------------------------------------------------------------- steps
Snapshot == [delta |-> delta, ft |-> _ft, now |-> now]

Called(name, a) ==
    /\ ncalls < MaxCalls
    /\ ncalls' = ncalls + 1
    /\ op' = name
    /\ arg' = a
    /\ pre' = Snapshot
    /\ obs' = <<>>
    /\ raised' = None
    /\ untouched' = (untouched /\ name = "start")
    /\ UNCHANGED <<now, tvars, rvars>>

Init ==
    /\ now = StartTime
    /\ __init__
    /\ op = "init"
    /\ arg = <<>>
    /\ pre = Snapshot
    /\ obs = <<>>
    /\ ncalls = 0
    /\ raised = None
    /\ untouched = TRUE
    /\ NoThreads
    /\ NoTime

Tick ==
    /\ now < StartTime + MaxElapsed
    /\ now' = now + 1
    /\ UNCHANGED <<delta, _ft, op, arg, pre, obs, ncalls, raised, untouched, tvars, rvars>>

\* x = mc.ts
ReadTs ==
    /\ Len(obs) < MaxReads
    /\ obs' = Append(obs, [at |-> now, ts |-> ts, delta |-> delta, ft |-> _ft])
    /\ UNCHANGED <<now, delta, _ft, op, arg, pre, ncalls, raised, untouched, tvars, rvars>>

CallStart == start /\ Called("start", <<>>)

CallStop == stop /\ Called("stop", <<>>)

CallSetTs == \E v \in Values : set_ts(v) /\ Called("set_ts", <<v>>)

CallWait == \E a \in WaitArgs : wait(a[1], a[2]) /\ Called("wait", a)

Next == Tick \/ ReadTs \/ CallStart \/ CallStop \/ CallSetTs \/ CallWait

Spec == Init /\ [][Next]_vars

\* the clock shared by two threads
ThreadNext ==
    \E t \in Threads :
        \/ Begin(t)
        \/ GetCheck(t) \/ GetFt(t) \/ GetTime(t)
        \/ StopSub(t) \/ StopWrite(t)
        \/ StartCheck(t) \/ StartSub1(t) \/ StartSub2(t) \/ StartDelta(t) \/ StartFt(t)
        \/ SetDelta(t) \/ SetCheck(t) \/ SetFt(t)

SpecThreads == Init /\ [][ThreadNext]_vars

\* Time and TzLocal over the registry, one clock and the system timer
TimeInit ==
    /\ now = StartTime
    /\ __init__
    /\ op = "init"
    /\ arg = <<>>
    /\ pre = Snapshot
    /\ obs = <<>>
    /\ ncalls = 0
    /\ raised = None
    /\ untouched = TRUE
    /\ NoThreads
    /\ clockRegs = <<>>
    /\ localRegs = <<>>
    /\ os \in OSZones
    /\ tcall = NoCall

\* a step of the surroundings: what the last call returned is no longer current
Moved == tcall' = NoCall /\ UNCHANGED <<op, arg, pre, obs, raised, untouched, tvars, os>>

TimeTick ==
    /\ now < StartTime + MaxElapsed
    /\ now' = now + 1
    /\ Moved
    /\ UNCHANGED <<delta, _ft, ncalls, clockRegs, localRegs>>

\* clock.start(), clock.stop() or clock.ts = v on the ManageableClock
Manage ==
    /\ ncalls < MaxManage
    /\ ncalls' = ncalls + 1
    /\ \/ start
       \/ stop
       \/ \E v \in Values : set_ts(v)
    /\ Moved
    /\ UNCHANGED <<now, clockRegs, localRegs>>

\* registerUtility(clock)
RegisterClock ==
    /\ Len(clockRegs) + Len(localRegs) < MaxRegs
    /\ \E c \in {"Clock", "ManageableClock"} : clockRegs' = Append(clockRegs, c)
    /\ Moved
    /\ UNCHANGED <<now, delta, _ft, ncalls, localRegs>>

\* registerUtility(tz, ITimeZone, name='local')
RegisterLocal ==
    /\ Len(clockRegs) + Len(localRegs) < MaxRegs
    /\ \E z \in {"UTC", "TzTest"} : localRegs' = Append(localRegs, z)
    /\ Moved
    /\ UNCHANGED <<now, delta, _ft, ncalls, clockRegs>>

\* the caller drops what the last call returned
Drop ==
    /\ tcall # NoCall
    /\ tcall' = NoCall
    /\ UNCHANGED <<now, delta, _ft, cvars, tvars, clockRegs, localRegs, os>>

\* a call that only returns: r is what it returned
Returned(r) ==
    /\ tcall' = r
    /\ UNCHANGED <<now, delta, _ft, cvars, tvars, clockRegs, localRegs, os>>

CallNow == tcall = NoCall /\ Returned([NoCall EXCEPT !.name = "now", !.ret = Time_now])

CallNowLt == tcall = NoCall /\ Returned([NoCall EXCEPT !.name = "now_lt", !.ret = Time_now_lt])

CallTzLocal ==
    tcall = NoCall /\
    Returned([NoCall EXCEPT !.name = "TzLocal", !.tz = TzLocal])

CallNew ==
    tcall = NoCall /\
    \E w \in Walls, pos \in {"absent", "None", "TzTest"}, kw \in {"absent", "UTC"} :
        Returned([NoCall EXCEPT !.name = "Time", !.t = MkTime(w, "None"),
                                !.pos = pos, !.kw = kw, !.ret = __new__(w, pos, kw)])

CallFromDatetime ==
    tcall = NoCall /\
    \E dt \in Times :
        Returned([NoCall EXCEPT !.name = "from_datetime", !.t = dt,
                                !.ret = from_datetime(dt)])

\* t.astimezone(tz), t being a Time at hand, or the Time the last astimezone
\* returned, converted back to the timezone it came from
CallAstimezone ==
    \E tz \in Zones :
        \/ \E t \in Times :
              tcall = NoCall /\
              Returned([NoCall EXCEPT !.name = "astimezone", !.t = t, !.tz = tz,
                                      !.ret = astimezone(t, tz)])
        \/ /\ tcall.name = "astimezone"
           /\ tcall.ret.kind = "Time"
           /\ tz = tcall.t.tzinfo
           /\ tcall.orig.kind = "error"
           /\ Returned([NoCall EXCEPT !.name = "astimezone", !.t = tcall.ret, !.tz = tz,
                                      !.orig = tcall.t,
                                      !.ret = astimezone(tcall.ret, tz)])

TimeNext ==
    \/ TimeTick \/ Manage \/ RegisterClock \/ RegisterLocal \/ Drop
    \/ CallNow \/ CallNowLt \/ CallTzLocal
    \/ CallNew \/ CallFromDatetime \/ CallAstimezone

SpecTime == TimeInit /\ [][TimeNext]_vars

\* ------------------------------------------------------------------ claims
\* the reading a clock in state s (a Snapshot) gives at system time t
Reading(s, t) == get_ts(s.ft, s.delta, t)

\* the state the last call started from was stopped / running
WasStopped == ~is_running(pre.ft)
WasRunning == is_running(pre.ft)

\* the reading the clock had when the last call was made
X == Reading(pre, pre.now)

\* C1: while the clock is stopped and no start/stop/set/wait is called, every
\* read of ts returns the same value whatever system time passes between the
\* reads, and the reads leave delta and the frozen timestamp as they were.
C1_StoppedReadsAgree ==
    ~is_running(_ft) =>
        \A i, j \in DOMAIN obs :
            /\ obs[i].ts = obs[j].ts
            /\ obs[i].delta = delta
            /\ obs[i].ft = _ft

C1_Witness ==
    /\ ~is_running(_ft)
    /\ delta # 0
    /\ Len(obs) = 2
    /\ obs[1].at < obs[2].at

\* C2: stop() on a running clock captures system_time + delta as the frozen
\* timestamp, for every delta, so the reading right after stop() equals the
\* reading right before it at the same system time.
C2_StopFreezesCurrentReading ==
    (op = "stop" /\ WasRunning) =>
        /\ _ft = Some(pre.now + pre.delta)
        /\ get_ts(_ft, delta, pre.now) = X

\* C3: start() on a stopped clock recomputes delta so that system_time + delta
\* equals the frozen timestamp at the moment of start(); a read e seconds of
\* system time later returns the frozen reading plus e.
C3_StartResumesFromFrozen ==
    (op = "start" /\ WasStopped) =>
        /\ pre.now + delta = Val(pre.ft)
        /\ \A i \in DOMAIN obs : obs[i].ts = Val(pre.ft) + (obs[i].at - pre.now)

\* C4: if a stopped clock reads X, then after start() every read is >= X, and
\* > X once system time has elapsed since the start().
C4_StartNeverMovesBackward ==
    (op = "start" /\ WasStopped) =>
        \A i \in DOMAIN obs :
            /\ obs[i].ts >= X
            /\ obs[i].at > pre.now => obs[i].ts > X

\* C5: stop() on an already stopped clock is a no-op: is_running stays false
\* and the frozen timestamp, delta and the reading are unchanged, for every
\* delta.
C5_StopIdempotent ==
    (op = "stop" /\ WasStopped) =>
        /\ ~is_running(_ft)
        /\ _ft = pre.ft
        /\ delta = pre.delta
        /\ \A i \in DOMAIN obs : obs[i].ts = X

\* C6: start() on an already running clock changes neither delta nor the run
\* state, so the reads that follow are those of the clock it was called on.
C6_StartIdempotent ==
    (op = "start" /\ WasRunning) =>
        /\ delta = pre.delta
        /\ _ft = pre.ft
        /\ \A i \in DOMAIN obs : obs[i].ts = Reading(pre, obs[i].at)

C6_Witness ==
    /\ op = "start"
    /\ WasRunning
    /\ pre.delta # 0
    /\ Len(obs) = 2
    /\ obs[1].at = pre.now
    /\ obs[2].at > pre.now

\* C7: setting ts to v while the clock is stopped makes every following read
\* return exactly v, whatever delta and the frozen value were before.
C7_SetWhileStoppedReadsValue ==
    (op = "set_ts" /\ WasStopped) =>
        /\ _ft = Some(arg[1])
        /\ \A i \in DOMAIN obs : obs[i].ts = arg[1]

C7_Witness ==
    /\ op = "set_ts"
    /\ WasStopped
    /\ pre.delta # 0
    /\ Val(pre.ft) # arg[1]
    /\ Len(obs) = 2
    /\ obs[2].at > pre.now

\* C8: setting ts and wait() leave is_running as it was, on a running and on a
\* stopped clock; only start() and stop() change is_running.
C8_SetAndWaitKeepRunState ==
    /\ op \in {"set_ts", "wait"} => is_running(_ft) = is_running(pre.ft)
    /\ is_running(_ft) # is_running(pre.ft) => op \in {"start", "stop"}
    /\ \A i \in DOMAIN obs : is_running(obs[i].ft) = is_running(_ft)

C8_Witness ==
    /\ op = "set_ts"
    /\ WasRunning
    /\ is_running(_ft)
    /\ pre.delta # 0
    /\ Len(obs) > 0

\* C9: setting ts to v while the clock is running re-bases it on v: a read at
\* the system time of the set returns v, a read e later returns v + e.
C9_SetWhileRunningRebases ==
    (op = "set_ts" /\ WasRunning) =>
        /\ get_ts(_ft, delta, pre.now) = arg[1]
        /\ \A i \in DOMAIN obs : obs[i].ts = arg[1] + (obs[i].at - pre.now)

C9_Witness ==
    /\ op = "set_ts"
    /\ WasRunning
    /\ pre.delta # 0
    /\ Len(obs) = 2
    /\ obs[1].at = pre.now
    /\ obs[2].at > pre.now

\* the duration d that a wait() call was given, in ticks: the number, or the
\* whole of the timedelta (built from the keywords when none was passed)
Duration(timedelta_, kwargs) ==
    LET td == IF timedelta_ = NoArg THEN timedelta(kwargs) ELSE timedelta_
    IN  IF td.kind = "num" THEN td.num
        ELSE (td.days * SecsPerDay + td.seconds) * TicksPerSec + td.subsec

\* the last call was wait() with a duration given one way only
WaitedOneWay == op = "wait" /\ (arg[1] = NoArg \/ arg[2] = {})

\* by how much the last call shifted the reading at the system time it was made
Shift == get_ts(_ft, delta, pre.now) - X

\* the reads made since the last call are those of the clock it was called on,
\* shifted by s
ReadsShiftedBy(s) ==
    /\ WasStopped => _ft = Some(X + s)
    /\ \A i \in DOMAIN obs : obs[i].ts = Reading(pre, obs[i].at) + s

\* C10 as stated: wait(d) sets ts to the current ts + d: a stopped clock
\* reading X reads exactly X + d afterwards, a running clock's reading at the
\* same system time is shifted by exactly d, for positive and negative d.
C10_WaitShiftsByDuration ==
    WaitedOneWay => ReadsShiftedBy(Duration(arg[1], arg[2])) /\ Shift = Duration(arg[1], arg[2])

\* C10 amended: wait(d) shifts the reading by d reduced to whole seconds: a
\* number is truncated toward zero, a timedelta loses its sub-second part; a d
\* of whole seconds shifts by exactly d, for positive and negative d.
C10_WaitShiftsByWholeSeconds ==
    WaitedOneWay =>
        LET d == Duration(arg[1], arg[2])
            s == Shift
        IN  /\ ReadsShiftedBy(s)
            /\ s % TicksPerSec = 0
            /\ d % TicksPerSec = 0 => s = d
            /\ (arg[1].kind = "num" /\ d >= 0) => (s <= d /\ d - s < TicksPerSec)
            /\ (arg[1].kind = "num" /\ d < 0) => (s >= d /\ s - d < TicksPerSec)
            /\ arg[1].kind # "num" => (s <= d /\ d - s < TicksPerSec)

C10_Witness ==
    /\ op = "wait"
    /\ arg[1].kind = "num"
    /\ arg[2] = {}
    /\ arg[1].num < 0
    /\ arg[1].num % TicksPerSec # 0
    /\ WasStopped
    /\ pre.delta # 0
    /\ Len(obs) > 0

\* the last call was wait() with a number or timedelta and keywords at once
WaitedBothWays == op = "wait" /\ arg[1] # NoArg /\ arg[2] # {}

\* C11: wait() called with an explicit duration and duration keywords at once
\* is rejected as a usage error, and delta, the frozen timestamp and the
\* reading are left unchanged.
C11_WaitBothWaysRejected ==
    WaitedBothWays =>
        /\ raised # None
        /\ delta = pre.delta
        /\ _ft = pre.ft
        /\ Shift = 0

\* C17: a newly created clock is running with delta = 0 and no frozen
\* timestamp; until the first set/wait/stop its reading is the system time at
\* every read.
C17_NewClockReadsSystemTime ==
    untouched =>
        /\ is_running(_ft)
        /\ delta = 0
        /\ ts = now
        /\ \A i \in DOMAIN obs : obs[i].ts = obs[i].at

C17_Witness ==
    /\ op = "init"
    /\ untouched
    /\ Len(obs) = 2
    /\ obs[1].at < obs[2].at

\* C18: while the clock is running and no start/stop/set/wait is called, each
\* read returns system_time + delta with delta unchanged: two reads e > 0 of
\* system time apart differ by exactly e, the later one being the greater.
C18_RunningReadsFollowSystemTime ==
    is_running(_ft) =>
        /\ \A i \in DOMAIN obs :
            /\ obs[i].ts = obs[i].at + delta
            /\ obs[i].delta = delta
        /\ \A i, j \in DOMAIN obs :
            obs[i].at < obs[j].at =>
                /\ obs[j].ts - obs[i].ts = obs[j].at - obs[i].at
                /\ obs[j].ts > obs[i].ts

C18_Witness ==
    /\ is_running(_ft)
    /\ delta # 0
    /\ Len(obs) = 2
    /\ obs[1].at < obs[2].at

\* the last call was wait() with a structured duration: keywords, or a
\* timedelta object
WaitedStructured ==
    op = "wait" /\ (arg[1] = NoArg \/ (arg[1].kind = "timedelta" /\ arg[2] = {}))

\* the keywords' total, in ticks, hours and minutes included
KwTotal(kwargs) ==
    Kw(kwargs, "days") * SecsPerDay * TicksPerSec
    + Kw(kwargs, "hours") * 3600 * TicksPerSec
    + Kw(kwargs, "minutes") * 60 * TicksPerSec
    + Kw(kwargs, "seconds")

\* C19: wait() with a structured duration advances the clock by exactly
\* days*86400 + seconds of the normalised duration: hours and minutes are
\* folded into seconds, the sub-second part is dropped.  On a clock stopped at
\* 0, wait(minutes=5) reads 300 and wait(days=1, seconds=1) reads 86401.
C19_WaitStructuredDuration ==
    WaitedStructured =>
        LET td == IF arg[1] = NoArg THEN timedelta(arg[2]) ELSE arg[1]
            s  == (td.days * SecsPerDay + td.seconds) * TicksPerSec
        IN  /\ Shift = s
            /\ ReadsShiftedBy(s)
            /\ arg[1] = NoArg =>
                   /\ s <= KwTotal(arg[2])
                   /\ KwTotal(arg[2]) - s < TicksPerSec
                   /\ s % TicksPerSec = 0
            /\ (WasStopped /\ X = 0 /\ arg = <<NoArg, {<<"minutes", 5>>}>>) =>
                   _ft = Some(300 * TicksPerSec)
            /\ (WasStopped /\ X = 0
                  /\ arg = <<NoArg, {<<"days", 1>>, <<"seconds", TicksPerSec>>}>>) =>
                   _ft = Some(86401 * TicksPerSec)

C19_Witness ==
    /\ op = "wait"
    /\ arg = <<NoArg, {<<"days", 1>>, <<"seconds", TicksPerSec>>}>>
    /\ WasStopped
    /\ X = 0
    /\ Len(obs) > 0
    /\ obs[1].ts = 86401 * TicksPerSec

Registered ==
    IF Len(clockRegs) = 0 THEN "Clock" ELSE clockRegs[Len(clockRegs)]

\* the timezone registered most recently as 'local', "" when none is
RegisteredLocal ==
    IF Len(localRegs) = 0 THEN "" ELSE localRegs[Len(localRegs)]

\* the reading of the registered clock
RegisteredReading == IF Registered = "ManageableClock" THEN ts ELSE now

\* C12: Time.now() returns the UTC-tagged instant whose timestamp is the
\* reading, at the call, of the clock registered most recently for the clock
\* role, and of the plain system Clock when none is registered; with a
\* registered ManageableClock stopped at 0 it returns the epoch in UTC.
C12_NowReadsRegisteredClock ==
    tcall.name = "now" =>
        /\ tcall.ret.kind = "Time"
        /\ tcall.ret.tzinfo = "UTC"
        /\ tcall.ret.wall = RegisteredReading
        /\ (Registered = "ManageableClock" /\ _ft = Some(0)) =>
               tcall.ret = MkTime(0, "UTC")

C12_Witness ==
    /\ tcall.name = "now"
    /\ clockRegs = <<"Clock", "ManageableClock">>
    /\ _ft = Some(0)
    /\ now > StartTime
    /\ tcall.ret = MkTime(0, "UTC")

\* C13: TzLocal() returns the timezone registered under 'local' when there is
\* one and DefaultLocalTimeZone (the system's) otherwise; a later registration
\* is seen by the next call.
C13_TzLocalReadsRegistry ==
    tcall.name = "TzLocal" =>
        tcall.tz = (IF RegisteredLocal = "" THEN "TzSystem" ELSE RegisteredLocal)

C13_Witness ==
    /\ tcall.name = "TzLocal"
    /\ localRegs = <<"TzTest", "UTC">>
    /\ tcall.tz = "UTC"

\* C14: for a Time t and timezones among UTC and TzTest, t.astimezone(B) is the
\* same absolute instant with B's wall-clock fields and offset, and converting
\* back to t's timezone gives t's instant and wall-clock fields again; now_lt()
\* with TzTest registered is now() shifted by +5 minutes of wall time.
C14_ConversionKeepsInstant ==
    /\ (/\ tcall.name = "astimezone"
        /\ tcall.t.tzinfo \in {"UTC", "TzTest"}
        /\ tcall.tz \in {"UTC", "TzTest"}) =>
            /\ tcall.ret.kind = "Time"
            /\ tcall.ret.tzinfo = tcall.tz
            /\ Instant(tcall.ret) = Instant(tcall.t)
            /\ tcall.ret.wall =
                   Instant(tcall.t) + (IF tcall.tz = "TzTest" THEN 300 * TicksPerSec ELSE 0)
            /\ tcall.orig.kind = "Time" => tcall.ret = tcall.orig
    /\ (tcall.name = "now_lt" /\ RegisteredLocal = "TzTest") =>
            /\ tcall.ret = MkTime(RegisteredReading + 300 * TicksPerSec, "TzTest")
            /\ Instant(tcall.ret) = RegisteredReading

C14_Witness ==
    /\ tcall.name = "astimezone"
    /\ tcall.orig = MkTime(3, "TzTest")
    /\ tcall.t.tzinfo = "UTC"
    /\ tcall.ret = tcall.orig

\* the last call built a Time from calendar fields with no timezone argument
NewWithoutTimezone ==
    tcall.name = "Time" /\ tcall.pos = "absent" /\ tcall.kw = "absent"

\* C15 as stated: constructing a Time from calendar fields without supplying
\* any timezone fails instead of producing an instant.
C15_NewWithoutTimezoneFails ==
    NewWithoutTimezone => tcall.ret.kind = "error"

\* C15 amended: constructing a Time from calendar fields without a timezone
\* argument does not fail: it produces the Time with those fields in UTC.
C15_NewWithoutTimezoneIsUTC ==
    NewWithoutTimezone => tcall.ret = MkTime(tcall.t.wall, "UTC")

C15_Witness ==
    /\ NewWithoutTimezone
    /\ tcall.t.wall = 3
    /\ tcall.ret.kind = "Time"
    /\ tcall.ret.tzinfo = "UTC"

\* C16: Time.from_datetime(dt) raises ValueError when dt carries no timezone,
\* and for a dt that carries one returns a Time with the same calendar fields
\* and the same timezone, hence the same absolute instant.
C16_FromDatetime ==
    tcall.name = "from_datetime" =>
        IF tcall.t.tzinfo = "None"
        THEN tcall.ret = Raise("ValueError")
        ELSE /\ tcall.ret = MkTime(tcall.t.wall, tcall.t.tzinfo)
             /\ Instant(tcall.ret) = Instant(tcall.t)

C16_Witness ==
    /\ tcall.name = "from_datetime"
    /\ tcall.t = MkTime(3, "TzTest")
    /\ tcall.ret.kind = "Time"
    /\ tcall.ret.tzinfo = "TzTest"

====
